---- MODULE Spec2Model ----
(***************************************************************************)
(* Import / reconciliation core of the Danish housing market pipeline:     *)
(*   scripts/import_api_data.py       (field mapper, import_from_api)       *)
(*   scripts/import_copenhagen_area.py (import_properties[_parallel])       *)
(*   scripts/reimport_cases_test.py   (reimport_cases_only)                 *)
(*   scripts/reimport_all_cases.py    (reimport_all_cases)                  *)
(*   src/db_models_new.py             (relational schema)                   *)
(*                                                                         *)
(* The store is the set of committed rows (what any other session sees).   *)
(* A SQLAlchemy session is the sequence of writes staged since its last    *)
(* commit or rollback; a commit flushes them in one transaction.           *)
(***************************************************************************)
EXTENDS Integers, Sequences, FiniteSets, TLC

(* ------------------------------ bounds --------------------------------- *)
MaxCandidates == 3      \* longest candidate list handed to a bulk import
MaxBatchSize == 2       \* batch_size argument ranges over 1..MaxBatchSize
MaxApiCalls == 2        \* import_from_api invocations in "api" mode
MaxImages == 2          \* longest images array handed to import_cases
MaxBuildings == 3       \* longest buildings array handed to the building mappers
MaxHits == 5            \* most villas the search endpoint knows in the municipality

(* ------------------------- program constants --------------------------- *)
\* chunk_size of the existence check; the source uses 1000, scaled down so
\* that a candidate list of MaxCandidates ids spans more than one chunk.
chunk_size == 2
\* max_workers of the ThreadPoolExecutor; the source defaults to 12 / 10,
\* scaled down to two worker threads.
max_workers == 2
\* The discovery engine's numbers, scaled down together: per_page (50), the
\* page ceiling (200 pages, 10,000 hits), the subdivision threshold (9500,
\* a margin below the ceiling) and the pages sampled for zip codes (20).
per_page == 1
page_limit == 3
subdivide_threshold == 2
sample_pages == 2
\* max_empty_pages, as in the source
max_empty_pages == 3
\* failures whose detail a bulk import prints before it goes quiet; the
\* source uses 10, scaled down with the candidate lists
max_error_details == 1

PIDs == {"P1", "P2"}
WorkerSeq == <<"w1", "w2">>      \* the pool's threads, max_workers of them
MainThread == "main"

(* ------------------------------ schema --------------------------------- *)
\* __tablename__ of every mapped class
T_Property == "properties_new"
T_MainBuilding == "main_buildings"
T_AdditionalBuilding == "additional_buildings"
T_Registration == "registrations"
T_Case == "cases"
T_PriceChange == "price_changes"
T_CaseImage == "case_images"

\* document field -> table of the one-to-one descriptive entities, in the
\* order import_properties_parallel / import_from_api write them
DimFields == <<"municipality", "province", "road", "zip", "city", "place", "daysOnMarket">>
DimTable == [municipality |-> "municipalities", province |-> "provinces",
             road |-> "roads", zip |-> "zip_codes", city |-> "cities",
             place |-> "places", daysOnMarket |-> "days_on_market"]
DimTables == {DimTable[DimFields[i]] : i \in 1..Len(DimFields)}

\* tables whose property_id column is declared unique=True
UniquePropertyIdTables == {T_MainBuilding} \cup DimTables
\* tables with a unique natural key column (registration_id, case_id)
UniqueKeyTables == {T_Registration, T_Case}
\* tables with a property_id foreign key to properties_new.id
PropertyChildTables == {T_MainBuilding, T_AdditionalBuilding, T_Registration, T_Case} \cup DimTables

\* A row: rid is the autoincrement surrogate key (0 for properties_new, whose
\* primary key is the address id held in key), parent the owning cases.id of
\* a price_changes / case_images row, ver stands for the mapped field values.
Row(rid, tbl, pid, key, ver, parent) ==
  [rid |-> rid, tbl |-> tbl, property_id |-> pid, key |-> key, ver |-> ver, parent |-> parent]

EmptyDb == [rows |-> {}, seq |-> 0]

Table(d, t) == {r \in d.rows : r.tbl = t}
PropertyIds(d) == {r.key : r \in Table(d, T_Property)}
RowsOf(d, t, p) == {r \in Table(d, t) : r.property_id = p}
CasesOf(d, p) == RowsOf(d, T_Case, p)
ChildrenOfCase(d, c) == {r \in d.rows : r.tbl \in {T_PriceChange, T_CaseImage} /\ r.parent = c.rid}

(* ---------------------------- documents -------------------------------- *)
TargetSizes == {<<600, 400>>, <<1440, 960>>}

\* one element of the document's cases array
CaseDoc(cid, tom, npc, imgs) ==
  [caseID |-> cid, timeOnMarket |-> tom, priceChanges |-> npc, images |-> imgs]

\* a detail document: buildings is the length of the buildings array, dims
\* the set of descriptive objects present, registrations / cases the arrays
Doc(p, v, nb, dims, regs, cs) ==
  [addressID |-> p, ver |-> v, buildings |-> nb, dims |-> dims,
   registrations |-> regs, cases |-> cs]

NoDoc == Doc("", 0, 0, {}, <<>>, <<>>)

AllDims == {DimFields[i] : i \in 1..Len(DimFields)}

\* an ordinary document: one building, a municipality, one case with a
\* price change and one photo in three sizes
PlainDoc(p, v) ==
  Doc(p, v, 1, {"municipality"}, <<>>,
      <<CaseDoc("C-" \o p, "obj", 1, <<{<<600, 400>>, <<1440, 960>>, <<300, 200>>}>>)>>)
\* a complete document: two buildings, every descriptive object, one
\* registration, one case with a price change and one photo in three sizes
FullDoc(p, v) ==
  Doc(p, v, 2, AllDims, <<"R-" \o p>>,
      <<CaseDoc("C-" \o p, "obj", 1, <<{<<600, 400>>, <<1440, 960>>, <<300, 200>>}>>)>>)
\* a document with only the address-level scalars
BareDoc(p, v) == Doc(p, v, 0, {}, <<>>, <<>>)
\* a document whose case carries "timeOnMarket": null
NullTomDoc(p, v) ==
  Doc(p, v, 1, {"municipality"}, <<>>, <<CaseDoc("C-" \o p, "null", 0, <<>>)>>)
\* a document with two cases
TwoCaseDoc(p, v) ==
  Doc(p, v, 1, {"municipality"}, <<>>,
      <<CaseDoc("C-" \o p, "obj", 1, <<{<<600, 400>>}>>),
        CaseDoc("D-" \o p, "obj", 0, <<{<<1440, 960>>}, {<<300, 200>>}>>)>>)

(* --------------------------- field mapper ------------------------------ *)
\* a staged write: op is "insert" or "update"; pcs / imgs are the numbers of
\* PriceChange / CaseImage children attached to a Case through its
\* relationships (cascade save-update)
Write(op, tbl, pid, key, ver, pcs, imgs) ==
  [op |-> op, tbl |-> tbl, property_id |-> pid, key |-> key, ver |-> ver,
   pcs |-> pcs, imgs |-> imgs]

RECURSIVE SeqSum(_)
SeqSum(s) == IF s = <<>> THEN 0 ELSE Head(s) + SeqSum(Tail(s))

\* import_property: one Property keyed by the document's addressID
import_property(doc) == Write("insert", T_Property, doc.addressID, doc.addressID, doc.ver, 0, 0)

\* import_main_building: element 0 of the buildings array, if any
import_main_building(p, doc) ==
  IF doc.buildings = 0 THEN <<>>
  ELSE <<Write("insert", T_MainBuilding, p, "", doc.ver, 0, 0)>>

\* import_additional_buildings: elements 1..n-1 of the buildings array
import_additional_buildings(p, doc) ==
  IF doc.buildings <= 1 THEN <<>>
  ELSE [i \in 1..(doc.buildings - 1) |-> Write("insert", T_AdditionalBuilding, p, "", doc.ver, 0, 0)]

\* import_registrations: one Registration per element, keyed by registrationID
import_registrations(p, doc) ==
  [i \in 1..Len(doc.registrations) |->
     Write("insert", T_Registration, p, doc.registrations[i], doc.ver, 0, 0)]

\* import_municipality .. import_days_on_market: None when the object is absent
RECURSIVE import_dims(_, _, _)
import_dims(p, doc, i) ==
  IF i > Len(DimFields) THEN <<>>
  ELSE (IF DimFields[i] \in doc.dims
          THEN <<Write("insert", DimTable[DimFields[i]], p, "", doc.ver, 0, 0)>>
          ELSE <<>>) \o import_dims(p, doc, i + 1)

\* rows import_cases makes of one image: one per target size it offers
ImageRows(sizes) == Cardinality(sizes \cap TargetSizes)

\* import_cases raises (AttributeError on None.get) when a case carries
\* "timeOnMarket": null, before it returns any case
import_cases_raises(doc) ==
  \E i \in 1..Len(doc.cases) : doc.cases[i].timeOnMarket = "null"

\* import_cases: one Case per element with its PriceChange / CaseImage children
import_cases(p, doc) ==
  [i \in 1..Len(doc.cases) |->
     Write("insert", T_Case, p, doc.cases[i].caseID, doc.ver, doc.cases[i].priceChanges,
           SeqSum([j \in 1..Len(doc.cases[i].images) |-> ImageRows(doc.cases[i].images[j])]))]

(* ----------------------- session and transactions ---------------------- *)
\* session.merge of a Property: session.get finds a committed row with the
\* same primary key and the merge becomes an UPDATE of it; a pending object
\* of the same key is not found (autoflush is off) and a second INSERT is
\* staged.
merge_property(d, w) ==
  IF w.key \in PropertyIds(d) THEN [w EXCEPT !.op = "update"] ELSE w

\* variant: properties_new without its primary key, no unique property_id
Violates_NoKeys(d, w) ==
  \/ w.tbl \in UniqueKeyTables /\ \E r \in Table(d, w.tbl) : r.key = w.key
  \/ w.tbl \in PropertyChildTables /\ w.property_id \notin PropertyIds(d)

\* does inserting w break a constraint of the schema, given the rows so far
Violates(d, w) ==
  \/ w.tbl = T_Property /\ w.key \in PropertyIds(d)
  \/ w.tbl \in UniquePropertyIdTables /\ RowsOf(d, w.tbl, w.property_id) # {}
  \/ w.tbl \in UniqueKeyTables /\ \E r \in Table(d, w.tbl) : r.key = w.key
  \/ w.tbl \in PropertyChildTables /\ w.property_id \notin PropertyIds(d)

\* the rows one INSERT adds: the row itself and, for a Case, its children
InsertedRows(d, w) ==
  IF w.tbl = T_Property THEN {Row(0, T_Property, w.property_id, w.key, w.ver, 0)}
  ELSE {Row(d.seq + 1, w.tbl, w.property_id, w.key, w.ver, 0)}
       \cup {Row(d.seq + 1 + k, T_PriceChange, w.property_id, "", w.ver, d.seq + 1) : k \in 1..w.pcs}
       \cup {Row(d.seq + 1 + w.pcs + k, T_CaseImage, w.property_id, "", w.ver, d.seq + 1) : k \in 1..w.imgs}

ApplyWrite(d, w) ==
  IF w.op = "update"
    THEN [d EXCEPT !.rows = {r \in d.rows : ~(r.tbl = T_Property /\ r.key = w.key)}
                            \cup {Row(0, T_Property, w.property_id, w.key, w.ver, 0)}]
    ELSE [rows |-> d.rows \cup InsertedRows(d, w),
          seq |-> IF w.tbl = T_Property THEN d.seq ELSE d.seq + 1 + w.pcs + w.imgs]

\* flush of the staged writes inside one transaction: ok is FALSE as soon
\* as one statement raises IntegrityError
RECURSIVE Flush(_, _)
Flush(d, ws) ==
  IF ws = <<>> THEN [ok |-> TRUE, db |-> d]
  ELSE IF Head(ws).op = "insert" /\ Violates(d, Head(ws)) THEN [ok |-> FALSE, db |-> d]
  ELSE Flush(ApplyWrite(d, Head(ws)), Tail(ws))

\* session.commit(): the transaction's rows become visible, or nothing does
CommitOk(d, ws) == Flush(d, ws).ok
\* variant: statements autocommitted one by one, a failure keeps the earlier ones
Committed_Partial(d, ws) == Flush(d, ws).db
Committed(d, ws) == IF CommitOk(d, ws) THEN Flush(d, ws).db ELSE d

\* variant: the cases are deleted without their children
DeleteCases_NoCascade(d, p) ==
  [d EXCEPT !.rows = {r \in d.rows : ~(r.tbl = T_Case /\ r.property_id = p)}]

\* session.delete(case) for every case of p: the ORM cascade
\* ("all, delete-orphan") deletes the case's price_changes and images too
DeleteCases(d, p) ==
  [d EXCEPT !.rows = {r \in d.rows :
      /\ ~(r.tbl = T_Case /\ r.property_id = p)
      /\ ~(\E c \in CasesOf(d, p) : r \in ChildrenOfCase(d, c))}]

\* the writes import_from_api stages for one document: session.add of every
\* mapped object, in source order; cases last
ApiWrites(p, doc) ==
  <<import_property(doc)>> \o import_main_building(p, doc) \o import_additional_buildings(p, doc)
    \o import_registrations(p, doc) \o import_dims(p, doc, 1) \o import_cases(p, doc)

\* the writes import_properties_parallel stages for one item: merge of the
\* Property, merge (= insert, no primary key set) of the children, add of cases
ParallelWrites(d, p, doc) ==
  <<merge_property(d, import_property(doc))>> \o Tail(ApiWrites(p, doc))

\* the store left by importing the documents served at version 1 for ids S
RECURSIVE StoreOf(_, _)
StoreOf(S, docOf) ==
  IF S = {} THEN EmptyDb
  ELSE LET p == CHOOSE x \in S : TRUE
       IN Committed(StoreOf(S \ {p}, docOf), ApiWrites(p, docOf[p]))

(* ------------------------------- state --------------------------------- *)
VARIABLES
  mode,                 \* entry point: "parallel", "sequential", "api", "reimport"
  db,                   \* committed rows of the Entity Store
  db0,                  \* the store as it was when the run started
  source,               \* document the Remote Listing Source serves per id
  property_list,        \* candidate ids handed to the bulk import
  batch_size,
  dry_run,
  pc,                   \* position of the coordinating thread
  existing_ids,
  properties_to_import,
  futures,              \* one record per submitted fetch task
  pending,              \* writes staged in the coordinator's session
  imported_count, skipped_count, error_count,
  batch_count,
  autoflush,
  interrupted,          \* a KeyboardInterrupt has been delivered
  raised,               \* an exception is propagating out of the function
  failed_commits,       \* batch commits that raised and were rolled back
  staged_at_interrupt,  \* ids staged and uncommitted when the interrupt came
  used,                 \* <<thread, step, session>> triples observed so far
  idx,                  \* import_properties: candidates handled so far
  batch_start_idx,
  api_calls,            \* import_from_api calls made from the command line
  ret,                  \* last import_from_api call: id, fetch succeeded, value returned
  success_count,        \* reimport_all_cases
  requests,             \* ids a detail request has been sent for
  probe,                \* field mapper called on its own: the input
  mapped,               \* field mapper called on its own: the outcome
  catalog,              \* zip code of every villa the search endpoint knows
  total_hits,           \* totalHits of the first search request, -1 if it failed
  segments,             \* segments fetch_properties_by_municipality pages
  seg_idx,              \* the segment being paged
  page, consecutive_empty_pages, property_ids,   \* fetch_properties_by_filters
  all_property_ids,     \* ids collected from the finished segments
  seg_requests,         \* earlier passes of the loop for the current segment
  faults,               \* a request failed or a page came back empty though it has results
  max_properties,       \* the --limit the discovery was called with, 0 for none
  entry_point,          \* the script started from the command line
  db_password,          \* DB_PASSWORD in its environment
  loading,              \* modules whose top level has not run yet
  error_details         \* error detail lines printed for failed items

runVars == <<existing_ids, properties_to_import, futures, pending, imported_count,
             skipped_count, error_count, batch_count, autoflush>>
inputVars == <<mode, db0, source, property_list, batch_size, dry_run>>
ghostVars == <<interrupted, raised, failed_commits, staged_at_interrupt, used>>
seqVars == <<idx, batch_start_idx, api_calls, ret, success_count>>
discVars == <<catalog, total_hits, segments, seg_idx, page, consecutive_empty_pages,
              property_ids, all_property_ids, seg_requests, faults, max_properties>>
bootVars == <<entry_point, db_password, loading>>
auxVars == <<probe, mapped, discVars, bootVars, error_details>>
vars == <<inputVars, db, pc, runVars, ghostVars, seqVars, requests, auxVars>>

Range(s) == {s[i] : i \in 1..Len(s)}
Min(a, b) == IF a < b THEN a ELSE b

\* sequences over S of length at most n
SeqsUpTo(S, n) == UNION {[1..k -> S] : k \in 0..n}

\* documents the source may serve for an id (version 2: the source has
\* moved on since the first import, which stored version 1)
SourceDocs(p) ==
  IF p = "P1" THEN {PlainDoc(p, 2)} ELSE {PlainDoc(p, 2), NullTomDoc(p, 2)}

\* documents of the first import, which built the initial store
FirstDocs == [p \in PIDs |-> FullDoc(p, 1)]

\* sets of ids a previous import has left in the store
InitiallyStored == {{}, {"P2"}}

Response(ok, doc) == [ok |-> ok, doc |-> doc]
\* outcomes of GET /addresses/<id>: the served document, or an exception
\* (network error, timeout, non-200 status)
Responses(p) == {Response(TRUE, source[p]), Response(FALSE, NoDoc)}

\* a task handed to the ThreadPoolExecutor: st is its progress, res what the
\* fetch returned, worker the pool thread that runs it, ret its return value
Future(id, st, res, w) == [id |-> id, st |-> st, res |-> res, worker |-> w, ret |-> FALSE]

NoProbe == [kind |-> "none"]

\* a bulk import, import_from_api or reimport run before its first step
InitRun ==
  /\ db = db0
  /\ existing_ids = {}
  /\ properties_to_import = <<>>
  /\ futures = <<>>
  /\ pending = <<>>
  /\ imported_count = 0 /\ skipped_count = 0 /\ error_count = 0
  /\ batch_count = 0
  /\ autoflush = TRUE
  /\ interrupted = FALSE /\ raised = FALSE
  /\ failed_commits = 0
  /\ staged_at_interrupt = {}
  /\ used = {}
  /\ idx = 0 /\ batch_start_idx = 0
  /\ api_calls = 0
  /\ ret = [id |-> "", fetched |-> FALSE, ok |-> FALSE]
  /\ success_count = 0
  /\ requests = {}
  /\ error_details = 0

\* the discovery engine has not run
NoDiscovery ==
  /\ catalog = <<>> /\ total_hits = -1 /\ segments = <<>> /\ seg_idx = 0
  /\ page = 1 /\ consecutive_empty_pages = 0 /\ property_ids = <<>>
  /\ all_property_ids = <<>> /\ seg_requests = 0 /\ faults = FALSE
  /\ max_properties = 0

\* the run was started with its credential in place
NoBoot == entry_point = "none" /\ db_password = "set" /\ loading = <<>>

InitCommon ==
  /\ InitRun
  /\ probe = NoProbe
  /\ mapped = "none"
  /\ NoDiscovery
  /\ NoBoot

\* the functions that serve, for every id, one of the documents in docs[id]
Sources(docs) ==
  {f \in [PIDs -> UNION {docs[p] : p \in PIDs}] : \A p \in PIDs : f[p] \in docs[p]}

InitParallel ==
  /\ mode = "parallel"
  /\ source \in Sources([p \in PIDs |-> SourceDocs(p)])
  /\ db0 \in {StoreOf(S, FirstDocs) : S \in InitiallyStored}
  /\ InitCommon
  /\ property_list \in SeqsUpTo(PIDs, MaxCandidates)
  /\ batch_size \in 1..MaxBatchSize
  /\ dry_run \in BOOLEAN
  /\ pc = "start"

(* -------------------- import_properties_parallel ----------------------- *)
\* variant: only the first chunk is queried
ChunkedExisting_FirstChunk(ids, d, i) ==
  {p \in Range(SubSeq(ids, 1, Min(chunk_size, Len(ids)))) : p \in PropertyIds(d)}

\* the bulk existence check: one IN query per chunk of chunk_size ids
RECURSIVE ChunkedExisting(_, _, _)
ChunkedExisting(ids, d, i) ==
  IF i >= Len(ids) THEN {}
  ELSE {p \in Range(SubSeq(ids, i + 1, Min(i + chunk_size, Len(ids)))) : p \in PropertyIds(d)}
       \cup ChunkedExisting(ids, d, i + chunk_size)

\* [pid for pid in property_ids if pid not in existing_ids]
NotExisting(ids, ex) == SelectSeq(ids, LAMBDA p : p \notin ex)

\* dry run: nothing is checked or fetched, (len(property_list), 0, 0) returned
ParDryRun ==
  /\ mode = "parallel" /\ pc = "start" /\ dry_run
  /\ imported_count' = Len(property_list)
  /\ pc' = "done"
  /\ UNCHANGED <<inputVars, auxVars, seqVars, requests, db, existing_ids, properties_to_import, futures, pending,
                 skipped_count, error_count, batch_count, autoflush, ghostVars>>

\* existence check; early return when nothing is left to import
ParAllExist ==
  /\ mode = "parallel" /\ pc = "start" /\ ~dry_run
  /\ LET ex == ChunkedExisting(property_list, db, 0)
     IN /\ Len(NotExisting(property_list, ex)) = 0
        /\ existing_ids' = ex
        /\ skipped_count' = Cardinality(ex)
  /\ pc' = "done"
  /\ used' = used \cup {<<MainThread, "query", "session">>}
  /\ UNCHANGED <<inputVars, auxVars, seqVars, requests, db, properties_to_import, futures, pending, imported_count,
                 error_count, batch_count, autoflush, interrupted, raised, failed_commits,
                 staged_at_interrupt>>

\* existence check, autoflush off, every fetch task submitted to the pool
ParSubmit ==
  /\ mode = "parallel" /\ pc = "start" /\ ~dry_run
  /\ LET ex == ChunkedExisting(property_list, db, 0)
         todo == NotExisting(property_list, ex)
     IN /\ Len(todo) > 0
        /\ existing_ids' = ex
        /\ skipped_count' = Cardinality(ex)
        /\ properties_to_import' = todo
        /\ futures' = [i \in 1..Len(todo) |-> Future(todo[i], "queued", Response(FALSE, NoDoc), "")]
  /\ autoflush' = FALSE
  /\ pc' = "loop"
  /\ used' = used \cup {<<MainThread, "query", "session">>}
  /\ UNCHANGED <<inputVars, auxVars, seqVars, requests, db, pending, imported_count, error_count, batch_count,
                 interrupted, raised, failed_commits, staged_at_interrupt>>

Busy == {futures[i].worker : i \in {j \in 1..Len(futures) : futures[j].st = "running"}}

\* a pool thread takes the oldest queued task (the work queue is FIFO)
WorkerStart ==
  /\ mode = "parallel" /\ pc \in {"loop", "shutdown"}
  /\ \E i \in 1..Len(futures) :
       /\ futures[i].st = "queued"
       /\ \A j \in 1..(i - 1) : futures[j].st # "queued"
       /\ Cardinality(Busy) < max_workers
       /\ LET n == CHOOSE x \in 1..max_workers :
                      /\ WorkerSeq[x] \notin Busy
                      /\ \A y \in 1..(x - 1) : WorkerSeq[y] \in Busy
          IN futures' = [futures EXCEPT ![i].st = "running", ![i].worker = WorkerSeq[n]]
       /\ requests' = requests \cup {futures[i].id}
  /\ UNCHANGED <<inputVars, auxVars, seqVars, db, pc, existing_ids, properties_to_import, pending, imported_count,
                 skipped_count, error_count, batch_count, autoflush, ghostVars>>

\* fetch_property_data returns (id, document, None) or (id, None, error);
\* the thread goes back to the pool.  Once the loop has been left nobody
\* reads a result, so only its arrival is recorded.
WorkerFinish ==
  /\ mode = "parallel" /\ pc \in {"loop", "shutdown"}
  /\ \E i \in 1..Len(futures) :
       /\ futures[i].st = "running"
       /\ \E r \in (IF pc = "loop" THEN Responses(futures[i].id) ELSE {Response(FALSE, NoDoc)}) :
            futures' = [futures EXCEPT ![i].st = "done", ![i].res = r, ![i].worker = ""]
       /\ used' = used \cup {<<futures[i].worker, "fetch", "none">>}
  /\ UNCHANGED <<inputVars, auxVars, seqVars, requests, db, pc, existing_ids, properties_to_import, pending, imported_count,
                 skipped_count, error_count, batch_count, autoflush, interrupted, raised,
                 failed_commits, staged_at_interrupt>>

\* ---- the coordinating thread: body of "for future in as_completed(...)" ----
\* variant: the completed future is handed to the loop body again
Yield_Again(i) == futures
\* as_completed hands every completed future to the loop body once
Yield(i) == [futures EXCEPT ![i].st = "yielded"]
Usable(r) == r.ok /\ r.doc # NoDoc
MainWrites == {<<MainThread, "map", "none">>, <<MainThread, "write", "session">>}
StagedIds(ws) == {ws[j].key : j \in {n \in 1..Len(ws) : ws[n].tbl = T_Property}}

\* the fetch failed, or returned an empty document: counted, next item
ParFetchFailed ==
  /\ mode = "parallel" /\ pc = "loop"
  /\ \E i \in 1..Len(futures) :
       /\ futures[i].st = "done" /\ ~Usable(futures[i].res)
       /\ futures' = Yield(i)
  /\ error_count' = error_count + 1
  /\ error_details' = IF error_count + 1 <= max_error_details THEN error_details + 1
                                                                ELSE error_details
  /\ UNCHANGED <<inputVars, probe, mapped, discVars, bootVars, seqVars, requests, db, pc, existing_ids, properties_to_import, pending, imported_count,
                 skipped_count, batch_count, autoflush, ghostVars>>

\* mapping raised: counted, session.rollback() (which empties the session)
ParMapRaised ==
  /\ mode = "parallel" /\ pc = "loop"
  /\ \E i \in 1..Len(futures) :
       /\ futures[i].st = "done" /\ Usable(futures[i].res)
       /\ import_cases_raises(futures[i].res.doc)
       /\ futures' = Yield(i)
  /\ error_count' = error_count + 1
  /\ error_details' = IF error_count + 1 <= max_error_details THEN error_details + 1
                                                                ELSE error_details
  /\ pending' = <<>>
  /\ used' = used \cup MainWrites
  /\ UNCHANGED <<inputVars, probe, mapped, discVars, bootVars, seqVars, requests, db, pc, existing_ids, properties_to_import, imported_count,
                 skipped_count, batch_count, autoflush, interrupted, raised, failed_commits,
                 staged_at_interrupt>>

\* the item is mapped and staged; the batch is not full yet
ParStaged ==
  /\ mode = "parallel" /\ pc = "loop"
  /\ batch_count + 1 < batch_size
  /\ \E i \in 1..Len(futures) :
       /\ futures[i].st = "done" /\ Usable(futures[i].res)
       /\ ~import_cases_raises(futures[i].res.doc)
       /\ futures' = Yield(i)
       /\ pending' = pending \o ParallelWrites(db, futures[i].id, futures[i].res.doc)
  /\ imported_count' = imported_count + 1
  /\ batch_count' = batch_count + 1
  /\ used' = used \cup MainWrites
  /\ UNCHANGED <<inputVars, auxVars, seqVars, requests, db, pc, existing_ids, properties_to_import, skipped_count,
                 error_count, autoflush, interrupted, raised, failed_commits, staged_at_interrupt>>

\* the item is staged, the batch is full and its commit succeeds
ParBatchCommit ==
  /\ mode = "parallel" /\ pc = "loop"
  /\ batch_count + 1 >= batch_size
  /\ \E i \in 1..Len(futures) :
       /\ futures[i].st = "done" /\ Usable(futures[i].res)
       /\ ~import_cases_raises(futures[i].res.doc)
       /\ LET ws == pending \o ParallelWrites(db, futures[i].id, futures[i].res.doc)
          IN /\ CommitOk(db, ws)
             /\ db' = Committed(db, ws)
       /\ futures' = Yield(i)
  /\ pending' = <<>>
  /\ imported_count' = imported_count + 1
  /\ batch_count' = 0
  /\ used' = used \cup MainWrites
  /\ UNCHANGED <<inputVars, auxVars, seqVars, requests, pc, existing_ids, properties_to_import, skipped_count,
                 error_count, autoflush, interrupted, raised, failed_commits, staged_at_interrupt>>

\* the item is staged, the batch is full and its commit raises: rollback
ParBatchCommitFailed ==
  /\ mode = "parallel" /\ pc = "loop"
  /\ batch_count + 1 >= batch_size
  /\ \E i \in 1..Len(futures) :
       /\ futures[i].st = "done" /\ Usable(futures[i].res)
       /\ ~import_cases_raises(futures[i].res.doc)
       /\ LET ws == pending \o ParallelWrites(db, futures[i].id, futures[i].res.doc)
          IN /\ ~CommitOk(db, ws)
             /\ db' = Committed(db, ws)
       /\ futures' = Yield(i)
  /\ pending' = <<>>
  /\ imported_count' = imported_count + 1
  /\ batch_count' = 0
  /\ failed_commits' = failed_commits + 1
  /\ used' = used \cup MainWrites
  /\ UNCHANGED <<inputVars, auxVars, seqVars, requests, pc, existing_ids, properties_to_import, skipped_count,
                 error_count, autoflush, interrupted, raised, staged_at_interrupt>>

\* what the item has staged when a KeyboardInterrupt cuts its mapping short
WritesBeforeRaise(d, p, doc) ==
  IF import_cases_raises(doc)
    THEN <<merge_property(d, import_property(doc))>> \o import_main_building(p, doc)
           \o import_additional_buildings(p, doc) \o import_registrations(p, doc)
           \o import_dims(p, doc, 1)
    ELSE ParallelWrites(d, p, doc)

\* KeyboardInterrupt inside the try block, after k writes of the current
\* item: the handler commits the session and breaks out of the loop; a
\* commit that raises propagates out of the function
ParInterruptInItem ==
  /\ mode = "parallel" /\ pc = "loop" /\ ~interrupted
  /\ \E i \in 1..Len(futures) :
       /\ futures[i].st = "done"
       /\ futures' = Yield(i)
       /\ LET item == IF Usable(futures[i].res)
                        THEN WritesBeforeRaise(db, futures[i].id, futures[i].res.doc)
                        ELSE <<>>
          IN \E k \in 0..Len(item) :
               LET ws == pending \o SubSeq(item, 1, k)
               IN /\ db' = Committed(db, ws)
                  /\ raised' = ~CommitOk(db, ws)
                  /\ pending' = IF CommitOk(db, ws) THEN <<>> ELSE ws
  /\ interrupted' = TRUE
  /\ staged_at_interrupt' = StagedIds(pending)
  /\ pc' = "shutdown"
  /\ used' = used \cup MainWrites
  /\ UNCHANGED <<inputVars, auxVars, seqVars, requests, existing_ids, properties_to_import, imported_count, skipped_count,
                 error_count, batch_count, autoflush, failed_commits>>

\* KeyboardInterrupt while the for statement waits in as_completed for the
\* next fetch: outside the try block, so it propagates out of the function
ParInterruptWaiting ==
  /\ mode = "parallel" /\ pc = "loop" /\ ~interrupted
  /\ \E i \in 1..Len(futures) : futures[i].st # "yielded"
  /\ interrupted' = TRUE
  /\ raised' = TRUE
  /\ staged_at_interrupt' = StagedIds(pending)
  /\ pc' = "shutdown"
  /\ UNCHANGED <<inputVars, auxVars, seqVars, requests, db, runVars, failed_commits, used>>

PoolIdle == \A i \in 1..Len(futures) : futures[i].st \in {"done", "yielded"}
LoopOver ==
  \/ pc = "loop" /\ \A i \in 1..Len(futures) : futures[i].st = "yielded"
  \/ pc = "shutdown" /\ ~raised /\ PoolIdle

\* after the with block: autoflush back on, final commit of the remainder
ParFinish ==
  /\ mode = "parallel" /\ LoopOver
  /\ batch_count > 0 => CommitOk(db, pending)
  /\ db' = IF batch_count > 0 THEN Committed(db, pending) ELSE db
  /\ pending' = IF batch_count > 0 THEN <<>> ELSE pending
  /\ autoflush' = TRUE
  /\ pc' = "done"
  /\ UNCHANGED <<inputVars, auxVars, seqVars, requests, existing_ids, properties_to_import, futures, imported_count,
                 skipped_count, error_count, batch_count, ghostVars>>

\* the final commit raises: rollback
ParFinalCommitFailed ==
  /\ mode = "parallel" /\ LoopOver
  /\ batch_count > 0 /\ ~CommitOk(db, pending)
  /\ db' = Committed(db, pending)
  /\ pending' = <<>>
  /\ autoflush' = TRUE
  /\ failed_commits' = failed_commits + 1
  /\ pc' = "done"
  /\ UNCHANGED <<inputVars, auxVars, seqVars, requests, existing_ids, properties_to_import, futures, imported_count,
                 skipped_count, error_count, batch_count, interrupted, raised,
                 staged_at_interrupt, used>>

\* the exception leaves the with block once the pool has shut down
\* (shutdown(wait=True)); main's finally closes the session, which rolls
\* back whatever it still holds
ParAbort ==
  /\ mode = "parallel" /\ pc = "shutdown" /\ raised /\ PoolIdle
  /\ pending' = <<>>
  /\ pc' = "aborted"
  /\ UNCHANGED <<inputVars, auxVars, seqVars, requests, db, existing_ids, properties_to_import, futures, imported_count,
                 skipped_count, error_count, batch_count, autoflush, ghostVars>>

NextParallel ==
  \/ ParDryRun \/ ParAllExist \/ ParSubmit
  \/ WorkerStart \/ WorkerFinish
  \/ ParFetchFailed \/ ParMapRaised \/ ParStaged \/ ParBatchCommit \/ ParBatchCommitFailed
  \/ ParInterruptInItem \/ ParInterruptWaiting
  \/ ParFinish \/ ParFinalCommitFailed \/ ParAbort

(* --------------------------- import_from_api --------------------------- *)
\* variant: no rollback, what was added before the exception is committed
import_from_api_KeepsStaged(d, p, r) ==
  IF ~r.ok THEN [ok |-> FALSE, db |-> d]
  ELSE IF import_cases_raises(r.doc)
    THEN [ok |-> FALSE, db |-> Committed(d, <<import_property(r.doc)>>)]
  ELSE [ok |-> CommitOk(d, ApiWrites(p, r.doc)), db |-> Committed(d, ApiWrites(p, r.doc))]

\* import_from_api(p) when the fetch returned r: [ok, db] is the returned
\* boolean and the store afterwards.  A failed fetch returns False before a
\* session exists; a mapping or commit exception is rolled back.
import_from_api(d, p, r) ==
  IF ~r.ok \/ import_cases_raises(r.doc) THEN [ok |-> FALSE, db |-> d]
  ELSE [ok |-> CommitOk(d, ApiWrites(p, r.doc)), db |-> Committed(d, ApiWrites(p, r.doc))]

InitApi ==
  /\ mode = "api"
  /\ source \in Sources([p \in PIDs |-> IF p = "P1" THEN {FullDoc(p, 2), BareDoc(p, 2)}
                                         ELSE {NullTomDoc(p, 2)}])
  /\ db0 \in {StoreOf(S, FirstDocs) : S \in SUBSET PIDs}
  /\ InitCommon
  /\ property_list = <<>>
  /\ batch_size = 1
  /\ dry_run = FALSE
  /\ pc = "api"

\* python import_api_data.py --from-api <id>
ApiImport ==
  /\ mode = "api" /\ pc = "api" /\ api_calls < MaxApiCalls
  /\ \E p \in PIDs : \E r \in Responses(p) :
       /\ db' = import_from_api(db, p, r).db
       /\ ret' = [id |-> p, fetched |-> r.ok, ok |-> import_from_api(db, p, r).ok]
       /\ requests' = requests \cup {p}
  /\ api_calls' = api_calls + 1
  /\ UNCHANGED <<inputVars, auxVars, pc, runVars, ghostVars, idx, batch_start_idx, success_count>>

(* ------------------- import_properties (sequential) -------------------- *)
InitSequential ==
  /\ mode = "sequential"
  /\ source \in Sources([p \in PIDs |-> SourceDocs(p)])
  /\ db0 \in {StoreOf(S, FirstDocs) : S \in InitiallyStored}
  /\ InitCommon
  /\ property_list \in SeqsUpTo(PIDs, MaxCandidates)
  /\ batch_size \in 1..MaxBatchSize
  /\ dry_run \in BOOLEAN
  /\ pc = "start"

\* the bulk existence check (skipped in a dry run, which has no session)
SeqStart ==
  /\ mode = "sequential" /\ pc = "start"
  /\ existing_ids' = IF dry_run THEN {} ELSE ChunkedExisting(property_list, db, 0)
  /\ used' = IF dry_run THEN used ELSE used \cup {<<MainThread, "query", "session">>}
  /\ pc' = "loop"
  /\ UNCHANGED <<inputVars, auxVars, seqVars, requests, db, properties_to_import, futures, pending,
                 imported_count, skipped_count, error_count, batch_count, autoflush,
                 interrupted, raised, failed_commits, staged_at_interrupt>>

\* the candidate is already stored: skipped
SeqSkip ==
  /\ mode = "sequential" /\ pc = "loop" /\ idx < Len(property_list)
  /\ property_list[idx + 1] \in existing_ids
  /\ skipped_count' = skipped_count + 1
  /\ idx' = idx + 1
  /\ UNCHANGED <<inputVars, auxVars, requests, db, pc, existing_ids, properties_to_import, futures,
                 pending, imported_count, error_count, batch_count, autoflush, ghostVars,
                 batch_start_idx, api_calls, ret, success_count>>

\* import_from_api for the candidate, then the batch commit of the
\* orchestrator's own session (which holds no writes)
SeqImport ==
  /\ mode = "sequential" /\ pc = "loop" /\ idx < Len(property_list) /\ ~dry_run
  /\ property_list[idx + 1] \notin existing_ids
  /\ \E r \in Responses(property_list[idx + 1]) :
       LET p == property_list[idx + 1]
           out == import_from_api(db, p, r)
           imp == IF out.ok THEN imported_count + 1 ELSE imported_count
       IN /\ db' = out.db
          /\ ret' = [id |-> p, fetched |-> r.ok, ok |-> out.ok]
          /\ imported_count' = imp
          /\ error_count' = IF out.ok THEN error_count ELSE error_count + 1
          /\ error_details' = IF out.ok THEN error_details ELSE error_details + 1
          /\ batch_start_idx' = IF imp - batch_start_idx >= batch_size THEN imp ELSE batch_start_idx
          /\ requests' = requests \cup {p}
  /\ idx' = idx + 1
  /\ used' = used \cup {<<MainThread, "fetch", "none">>, <<MainThread, "map", "none">>,
                        <<MainThread, "write", "session:" \o property_list[idx + 1]>>}
  /\ UNCHANGED <<inputVars, probe, mapped, discVars, bootVars, pc, existing_ids, properties_to_import, futures, pending,
                 skipped_count, batch_count, autoflush, interrupted, raised, failed_commits,
                 staged_at_interrupt, api_calls, success_count>>

\* dry run: the detail is fetched and printed; a failed request is an error
SeqDryRunFetch ==
  /\ mode = "sequential" /\ pc = "loop" /\ idx < Len(property_list) /\ dry_run
  /\ \E r \in Responses(property_list[idx + 1]) :
       /\ imported_count' = IF r.ok THEN imported_count + 1 ELSE imported_count
       /\ error_count' = IF r.ok THEN error_count ELSE error_count + 1
       /\ error_details' = IF ~r.ok /\ error_count + 1 <= max_error_details
                              THEN error_details + 1 ELSE error_details
  /\ requests' = requests \cup {property_list[idx + 1]}
  /\ idx' = idx + 1
  /\ used' = used \cup {<<MainThread, "fetch", "none">>}
  /\ UNCHANGED <<inputVars, probe, mapped, discVars, bootVars, db, pc, existing_ids, properties_to_import, futures, pending,
                 skipped_count, batch_count, autoflush, interrupted, raised, failed_commits,
                 staged_at_interrupt, batch_start_idx, api_calls, ret, success_count>>

\* KeyboardInterrupt while a candidate is handled.  Inside the try block
\* import_from_api closes its session without committing, the handler
\* commits the orchestrator's session and breaks; on the skip path, before
\* the try block, the interrupt propagates.
SeqInterrupt ==
  /\ mode = "sequential" /\ pc = "loop" /\ idx < Len(property_list) /\ ~interrupted
  /\ interrupted' = TRUE
  /\ raised' = (property_list[idx + 1] \in existing_ids)
  /\ pc' = IF property_list[idx + 1] \in existing_ids THEN "aborted" ELSE "after_loop"
  /\ UNCHANGED <<inputVars, auxVars, seqVars, requests, db, runVars, failed_commits,
                 staged_at_interrupt, used>>

\* final commit of the remainder, counts returned
SeqFinish ==
  /\ mode = "sequential"
  /\ \/ pc = "loop" /\ idx = Len(property_list)
     \/ pc = "after_loop"
  /\ pc' = "done"
  /\ UNCHANGED <<inputVars, auxVars, seqVars, requests, db, runVars, ghostVars>>

NextSequential ==
  SeqStart \/ SeqSkip \/ SeqImport \/ SeqDryRunFetch \/ SeqInterrupt \/ SeqFinish

(* --------------- reimport_all_cases / reimport_cases_only -------------- *)
PIDSeq == <<"P1", "P2">>

\* get_properties_with_cases: SELECT DISTINCT property_id FROM cases
get_properties_with_cases(d) == SelectSeq(PIDSeq, LAMBDA p : CasesOf(d, p) # {})

\* variant: one module-level session shared by every call
TaskSession_Shared(p) == "session:shared"

\* session = Session(): every reimport_cases_only call opens its own session
TaskSession(p) == "session:" \o p

\* a document whose only case carries the caseID of another property's case
ForeignCaseDoc(p, v, q) ==
  Doc(p, v, 1, {"municipality"}, <<>>, <<CaseDoc("C-" \o q, "obj", 1, <<>>)>>)

ReimportFirstDocs == [p \in PIDs |-> IF p = "P1" THEN TwoCaseDoc(p, 1) ELSE FullDoc(p, 1)]

InitReimport ==
  /\ mode = "reimport"
  /\ source \in Sources([p \in PIDs |->
         IF p = "P1" THEN {FullDoc(p, 2), BareDoc(p, 2), NullTomDoc(p, 2), ForeignCaseDoc(p, 2, "P2")}
         ELSE {TwoCaseDoc(p, 2)}])
  /\ db0 \in {StoreOf(S, ReimportFirstDocs) : S \in {{"P1"}, {"P1", "P2"}}}
  /\ InitCommon
  /\ property_list = <<>>
  /\ batch_size = 1
  /\ dry_run = FALSE
  /\ pc = "start"

\* the list of properties with cases is read; the user confirms
ReSubmit ==
  /\ mode = "reimport" /\ pc = "start"
  /\ LET ids == get_properties_with_cases(db)
     IN futures' = [i \in 1..Len(ids) |-> Future(ids[i], "queued", Response(FALSE, NoDoc), "")]
  /\ used' = used \cup {<<MainThread, "query", "session:list">>}
  /\ pc' = "loop"
  /\ UNCHANGED <<inputVars, auxVars, seqVars, requests, db, existing_ids, properties_to_import, pending,
                 imported_count, skipped_count, error_count, batch_count, autoflush,
                 interrupted, raised, failed_commits, staged_at_interrupt>>

\* the user answers no
ReCancelled ==
  /\ mode = "reimport" /\ pc = "start"
  /\ used' = used \cup {<<MainThread, "query", "session:list">>}
  /\ pc' = "done"
  /\ UNCHANGED <<inputVars, auxVars, seqVars, requests, db, runVars, interrupted, raised,
                 failed_commits, staged_at_interrupt>>

\* pool threads inside a reimport_cases_only call
TaskBusy == {futures[i].worker :
               i \in {j \in 1..Len(futures) : futures[j].st \in {"running", "fetched", "deleted"}}}

\* a pool thread takes the oldest queued reimport_cases_only task and sends
\* its request
ReTaskStart ==
  /\ mode = "reimport" /\ pc = "loop"
  /\ \E i \in 1..Len(futures) :
       /\ futures[i].st = "queued"
       /\ \A j \in 1..(i - 1) : futures[j].st # "queued"
       /\ Cardinality(TaskBusy) < max_workers
       /\ LET n == CHOOSE x \in 1..max_workers :
                      /\ WorkerSeq[x] \notin TaskBusy
                      /\ \A y \in 1..(x - 1) : WorkerSeq[y] \in TaskBusy
          IN futures' = [futures EXCEPT ![i].st = "running", ![i].worker = WorkerSeq[n]]
       /\ requests' = requests \cup {futures[i].id}
  /\ UNCHANGED <<inputVars, auxVars, seqVars, db, pc, existing_ids, properties_to_import, pending,
                 imported_count, skipped_count, error_count, batch_count, autoflush, ghostVars>>

\* reimport_cases_only, lines 41-48: the fetch; an exception returns False
ReFetch ==
  /\ mode = "reimport" /\ pc = "loop"
  /\ \E i \in 1..Len(futures) :
       /\ futures[i].st = "running"
       /\ \E r \in Responses(futures[i].id) :
            futures' = [futures EXCEPT ![i].st = IF r.ok THEN "fetched" ELSE "done",
                                       ![i].res = r, ![i].ret = FALSE]
       /\ used' = used \cup {<<futures[i].worker, "fetch", "none">>}
  /\ UNCHANGED <<inputVars, auxVars, seqVars, requests, db, pc, existing_ids, properties_to_import,
                 pending, imported_count, skipped_count, error_count, batch_count, autoflush,
                 interrupted, raised, failed_commits, staged_at_interrupt>>

\* lines 50-58: the existing cases are deleted and the deletion committed
ReDelete ==
  /\ mode = "reimport" /\ pc = "loop"
  /\ \E i \in 1..Len(futures) :
       /\ futures[i].st = "fetched"
       /\ db' = DeleteCases(db, futures[i].id)
       /\ futures' = [futures EXCEPT ![i].st = "deleted"]
       /\ used' = used \cup {<<futures[i].worker, "write", TaskSession(futures[i].id)>>}
  /\ UNCHANGED <<inputVars, auxVars, seqVars, requests, pc, existing_ids, properties_to_import,
                 pending, imported_count, skipped_count, error_count, batch_count, autoflush,
                 interrupted, raised, failed_commits, staged_at_interrupt>>

\* lines 60-76: the new cases are mapped, added and committed; an exception
\* is rolled back and False returned
ReInsert ==
  /\ mode = "reimport" /\ pc = "loop"
  /\ \E i \in 1..Len(futures) :
       LET p == futures[i].id
           doc == futures[i].res.doc
           ok == ~import_cases_raises(doc) /\ CommitOk(db, import_cases(p, doc))
       IN /\ futures[i].st = "deleted"
          /\ db' = IF ok THEN Committed(db, import_cases(p, doc)) ELSE db
          /\ futures' = [futures EXCEPT ![i].st = "done", ![i].ret = ok]
          /\ used' = used \cup {<<futures[i].worker, "map", "none">>,
                                <<futures[i].worker, "write", TaskSession(p)>>}
  /\ UNCHANGED <<inputVars, auxVars, seqVars, requests, pc, existing_ids, properties_to_import,
                 pending, imported_count, skipped_count, error_count, batch_count, autoflush,
                 interrupted, raised, failed_commits, staged_at_interrupt>>

\* the coordinator counts the task's result
ReCollect ==
  /\ mode = "reimport" /\ pc = "loop"
  /\ \E i \in 1..Len(futures) :
       /\ futures[i].st = "done"
       /\ futures' = Yield(i)
       /\ success_count' = IF futures[i].ret THEN success_count + 1 ELSE success_count
       /\ error_count' = IF futures[i].ret THEN error_count ELSE error_count + 1
  /\ UNCHANGED <<inputVars, auxVars, requests, db, pc, existing_ids, properties_to_import, pending,
                 imported_count, skipped_count, batch_count, autoflush, ghostVars,
                 idx, batch_start_idx, api_calls, ret>>

ReFinish ==
  /\ mode = "reimport" /\ pc = "loop"
  /\ \A i \in 1..Len(futures) : futures[i].st = "yielded"
  /\ pc' = "done"
  /\ UNCHANGED <<inputVars, auxVars, seqVars, requests, db, runVars, ghostVars>>

NextReimport ==
  ReSubmit \/ ReCancelled \/ ReTaskStart \/ ReFetch \/ ReDelete \/ ReInsert \/ ReCollect \/ ReFinish

(* ------------------ the field mapper called on its own ----------------- *)
\* What a JSON value looks like to the mapper: "absent" (the key is
\* missing), "null" (Python None), "empty" ({} or []), "value" (a well
\* formed, non-empty value), "malformed" (a string that is not a date).
\* An outcome is one of these, or Raise when the mapper raises.
Raise == "raise"
Falsy == {"null", "empty"}

\* dict.get(key, default): the default only replaces a missing key
dict_get(fs, default) == IF fs = "absent" THEN default ELSE fs

\* safe_get(data, key, default): data.get(key, default) if data else default
safe_get(data, fs, default) == IF data \in Falsy THEN default ELSE dict_get(fs, default)

\* data.get(key, default) called on data directly: None has no get
method_get(data, fs, default) ==
  IF data = Raise \/ data = "null" THEN Raise
  ELSE IF data = "empty" THEN default ELSE dict_get(fs, default)

\* len(x) and "for y in x": None has no length and is not iterable
py_len(x) == IF x \in {Raise, "null"} THEN Raise ELSE x

\* parse_date: strptime("%Y-%m-%d") inside a bare except
parse_date(s) == IF s \in Falsy \/ s = "malformed" THEN "null" ELSE s

\* if x: x = datetime.fromisoformat(x.replace('Z', '+00:00'))
fromisoformat(s) ==
  IF s = Raise THEN Raise
  ELSE IF s \in Falsy THEN "null"
  ELSE IF s = "malformed" THEN Raise ELSE s

\* the optional fields probed, one per way the mapper reads a field
DateSites == {"registration.date", "latestSoldCaseDescription.date", "case.created",
              "case.modified", "case.sold", "priceChange.created"}
Sites ==
  {"livingArea", "building.housingArea", "place.coordinates", "daysOnMarket.realtors",
   "case.status", "imageSource.url",
   "coordinates", "municipality", "place.bbox", "case.timeOnMarket",
   "case.timeOnMarket.current", "imageSource.size",
   "buildings", "registrations", "cases", "case.priceChanges", "case.images",
   "image.imageSources"} \cup DateSites

\* what the mapper makes of the document when the field at site is in
\* state fs and every other field is present and well formed: Raise, or
\* the state of the attribute mapped from that field
MapSite(site, fs) ==
  CASE site \in {"livingArea", "building.housingArea"} -> safe_get("value", fs, "null")
    [] site = "coordinates" -> safe_get(safe_get("value", fs, "null"), "value", "null")
    [] site = "latestSoldCaseDescription.date" -> parse_date(safe_get("value", fs, "null"))
    [] site \in {"buildings", "registrations", "cases", "municipality"} ->
         IF safe_get("value", fs, "null") \in Falsy THEN "null" ELSE "value"
    [] site = "registration.date" -> parse_date(safe_get("value", fs, "null"))
    [] site = "place.bbox" ->
         LET bbox == safe_get("value", fs, "empty")
         IN IF py_len(bbox) = Raise THEN Raise
            ELSE IF py_len(bbox) = "value" THEN "value" ELSE "null"
    [] site = "place.coordinates" -> safe_get(safe_get("value", fs, "empty"), "value", "null")
    [] site = "daysOnMarket.realtors" -> safe_get("value", fs, "empty")
    [] site \in {"case.status", "imageSource.url"} -> method_get("value", fs, "null")
    [] site \in {"case.created", "case.modified", "case.sold", "priceChange.created"} ->
         fromisoformat(method_get("value", fs, "null"))
    [] site = "case.timeOnMarket" ->
         method_get(method_get(method_get("value", fs, "empty"), "value", "empty"), "value", "null")
    [] site = "case.timeOnMarket.current" ->
         method_get(method_get("value", fs, "empty"), "value", "null")
    [] site \in {"case.priceChanges", "case.images", "image.imageSources"} ->
         py_len(method_get("value", fs, "empty"))
    [] site = "imageSource.size" -> method_get(method_get("value", fs, "empty"), "value", "null")

\* sizes an image source may come in; the mapper keeps the first two
ImageSizes == TargetSizes \cup {<<300, 200>>}

\* a CaseImage as import_cases builds it
CaseImage(w, h, pos) == [width |-> w, height |-> h, is_default |-> (pos = 0), sort_order |-> pos]

\* variant: a row for every size the image comes in
image_rows_AnySize(sizes, pos) ==
  [n \in 1..Cardinality(sizes) |-> CaseImage(600, 400, pos)]

\* the rows import_cases appends for the image at position pos, whose
\* sources (each with a url) come in the given sizes: the 600x400 row
\* first, then the 1440x960 row
image_rows(sizes, pos) ==
  (IF <<600, 400>> \in sizes THEN <<CaseImage(600, 400, pos)>> ELSE <<>>)
    \o (IF <<1440, 960>> \in sizes THEN <<CaseImage(1440, 960, pos)>> ELSE <<>>)

\* "for idx, image_data in enumerate(images_data)": case.images in order
RECURSIVE case_images(_, _)
case_images(images, i) ==
  IF i > Len(images) THEN <<>>
  ELSE image_rows(images[i], i - 1) \o case_images(images, i + 1)

\* One element of a buildings array is known by its buildingName; fs tells
\* whether the document has the array at all ("absent", "null", "value").
\* The mappers return records that carry the name of their element.
\* variant: the main building is the first element named "Stuehus"
main_building_ByName(fs, buildings_data) ==
  LET named == SelectSeq(buildings_data, LAMBDA b : b = "Stuehus")
  IN IF fs # "value" \/ named = <<>> THEN <<>> ELSE <<[building_name |-> named[1]]>>

\* import_main_building on the array itself: None (no record) for a missing
\* or empty array, else a MainBuilding of buildings_data[0]
main_building(fs, buildings_data) ==
  IF fs # "value" \/ Len(buildings_data) = 0 THEN <<>>
  ELSE <<[building_name |-> buildings_data[1]]>>

\* import_additional_buildings on the array itself: an AdditionalBuilding
\* for every element of buildings_data[1:]
additional_buildings(fs, buildings_data) ==
  IF fs # "value" \/ Len(buildings_data) <= 1 THEN <<>>
  ELSE [i \in 1..(Len(buildings_data) - 1) |-> [building_name |-> buildings_data[i + 1]]]

InitMapper ==
  /\ mode = "mapper"
  /\ source = [p \in PIDs |-> NoDoc]
  /\ db0 = EmptyDb
  /\ InitRun
  /\ property_list = <<>>
  /\ batch_size = 1
  /\ dry_run = FALSE
  /\ pc = "start"
  /\ \/ \E s \in Sites : \E f \in {"absent", "null", "value"} :
          probe = [kind |-> "field", site |-> s, fs |-> f]
     \/ \E s \in DateSites : probe = [kind |-> "field", site |-> s, fs |-> "malformed"]
     \/ \E s \in SeqsUpTo(SUBSET ImageSizes, MaxImages) : probe = [kind |-> "images", images |-> s]
     \/ \E f \in {"absent", "null"} : probe = [kind |-> "buildings", fs |-> f, buildings |-> <<>>]
     \/ \E s \in SeqsUpTo({"Stuehus", "Garage", "null"}, MaxBuildings) :
          probe = [kind |-> "buildings", fs |-> "value", buildings |-> s]
  /\ mapped = "none"
  /\ NoDiscovery
  /\ NoBoot

\* the mapper function of the probed field is called on the document
MapField ==
  /\ mode = "mapper" /\ pc = "start" /\ probe.kind = "field"
  /\ mapped' = MapSite(probe.site, probe.fs)
  /\ pc' = "mapped"
  /\ UNCHANGED <<inputVars, error_details, db, runVars, ghostVars, seqVars, requests, probe, discVars, bootVars>>

\* import_cases is called on a case with the probed images array
MapImages ==
  /\ mode = "mapper" /\ pc = "start" /\ probe.kind = "images"
  /\ mapped' = case_images(probe.images, 1)
  /\ pc' = "mapped"
  /\ UNCHANGED <<inputVars, error_details, db, runVars, ghostVars, seqVars, requests, probe, discVars, bootVars>>

\* import_main_building and import_additional_buildings are called on the
\* probed buildings array
MapBuildings ==
  /\ mode = "mapper" /\ pc = "start" /\ probe.kind = "buildings"
  /\ mapped' = [main |-> main_building(probe.fs, probe.buildings),
                additional |-> additional_buildings(probe.fs, probe.buildings)]
  /\ pc' = "mapped"
  /\ UNCHANGED <<inputVars, error_details, db, runVars, ghostVars, seqVars, requests, probe, discVars, bootVars>>

(* ------------------------ the discovery engine ------------------------- *)
\* The search endpoint serves the villas of one municipality.  catalog[i] is
\* the zip code of villa i, in the order the unsorted search returns them;
\* a segment is "all" (no zip filter) or one zip code.
Zips == {"z1", "z2"}

\* ids matching the municipality (and the zip code of the segment), sorted
Matching(cat, seg) ==
  SelectSeq([i \in 1..Len(cat) |-> i], LAMBDA i : seg = "all" \/ cat[i] = seg)

\* the addresses array of page n (per_page results a page) of a result list
PageOf(ids, n) ==
  SubSeq(ids, Min((n - 1) * per_page + 1, Len(ids) + 1), Min(n * per_page, Len(ids)))

\* sorted(zip_codes)
SortedZips(S) == SelectSeq(<<"z1", "z2">>, LAMBDA z : z \in S)

\* zip codes seen on the first n pages of the unfiltered search
ZipsOnPages(cat, n) == {cat[i] : i \in 1..Min(n * per_page, Len(cat))}

\* variant: subdivide only above the pagination ceiling
NeedsSubdivision_AtCeiling(hits) == hits > per_page * page_limit

\* if total_hits > 9500
NeedsSubdivision(hits) == hits > subdivide_threshold

\* variant: the page ceiling is never checked
ReachedLimit_Never(n) == FALSE

\* if page >= 200
ReachedLimit(n) == n >= page_limit

InitDiscovery ==
  /\ mode = "discovery"
  /\ source = [p \in PIDs |-> NoDoc]
  /\ db0 = EmptyDb
  /\ InitRun
  /\ property_list = <<>>
  /\ batch_size = 1
  /\ dry_run = FALSE
  /\ pc = "count"
  /\ probe = NoProbe /\ mapped = "none"
  /\ catalog \in SeqsUpTo(Zips, MaxHits)
  /\ total_hits = -1
  /\ segments = <<>>
  /\ seg_idx = 0
  /\ page = 1
  /\ consecutive_empty_pages = 0
  /\ property_ids = <<>>
  /\ all_property_ids = <<>>
  /\ seg_requests = 0
  /\ faults = FALSE
  /\ max_properties = 0
  /\ NoBoot

\* fetch_properties_by_municipality: the first request reads totalHits and
\* picks the path; an exception falls back to direct paging
DiscCount ==
  /\ mode = "discovery" /\ pc = "count"
  /\ \E ok \in BOOLEAN :
       /\ total_hits' = IF ok THEN Len(catalog) ELSE -1
       /\ faults' = ~ok
       /\ IF ok /\ NeedsSubdivision(Len(catalog))
            THEN /\ pc' = "zips"
                 /\ UNCHANGED <<segments, seg_idx>>
            ELSE /\ pc' = "paging"
                 /\ segments' = <<"all">>
                 /\ seg_idx' = 1
  /\ UNCHANGED <<inputVars, error_details, db, runVars, ghostVars, seqVars, requests, probe, mapped, bootVars, catalog, max_properties,
                 page, consecutive_empty_pages, property_ids, all_property_ids, seg_requests>>

\* fetch_zip_codes_for_municipality: up to sample_pages pages of the
\* unfiltered search are read; a non-200 status stops the sampling after n
\* pages, an exception returns no zip code at all.  Without zip codes the
\* municipality is paged directly.
DiscZips ==
  /\ mode = "discovery" /\ pc = "zips"
  /\ \E n \in 0..sample_pages : \E exc \in BOOLEAN :
       LET zs == IF exc THEN <<>> ELSE SortedZips(ZipsOnPages(catalog, n))
       IN /\ segments' = IF zs = <<>> THEN <<"all">> ELSE zs
          /\ faults' = (faults \/ exc \/ n < sample_pages)
  /\ seg_idx' = 1
  /\ pc' = "paging"
  /\ UNCHANGED <<inputVars, error_details, db, runVars, ghostVars, seqVars, requests, probe, mapped, bootVars, catalog, max_properties,
                 total_hits, page, consecutive_empty_pages, property_ids, all_property_ids,
                 seg_requests>>

\* fetch_properties_by_filters: one pass of the while loop for the current
\* segment.  When the loop is left the ids collected are returned and
\* appended to the municipality's list, and the next segment starts.  The
\* endpoint answers a page request with the page itself, an empty page,
\* HTTP 400, another HTTP error or exception, or the user interrupts.
DiscPage ==
  /\ mode = "discovery" /\ pc = "paging"
  /\ \E a \in {"page", "empty", "400", "error", "interrupt"} :
       LET seg == segments[seg_idx]
           addresses == IF a = "page" THEN PageOf(Matching(catalog, seg), page) ELSE <<>>
           broken == a \in {"400", "error", "interrupt"}
           empties == IF ~broken /\ addresses = <<>> THEN consecutive_empty_pages + 1 ELSE 0
           collected == property_ids \o addresses
           leave == \/ broken
                    \/ addresses = <<>> /\ empties >= max_empty_pages
                    \/ addresses # <<>> /\ ReachedLimit(page)
           last == seg_idx = Len(segments)
       IN /\ faults' = (faults \/ broken
                          \/ (a = "empty" /\ PageOf(Matching(catalog, seg), page) # <<>>))
          /\ IF leave
               THEN /\ all_property_ids' = all_property_ids \o collected
                    /\ property_ids' = <<>>
                    /\ page' = 1
                    /\ consecutive_empty_pages' = 0
                    /\ seg_requests' = 0
                    /\ seg_idx' = IF last THEN seg_idx ELSE seg_idx + 1
                    /\ pc' = IF last THEN "discovered" ELSE "paging"
               ELSE /\ property_ids' = collected
                    /\ page' = page + 1
                    /\ consecutive_empty_pages' = empties
                    /\ seg_requests' = seg_requests + 1
                    /\ UNCHANGED <<all_property_ids, seg_idx, pc>>
  /\ UNCHANGED <<inputVars, error_details, db, runVars, ghostVars, seqVars, requests, probe, mapped, bootVars, catalog, max_properties,
                 total_hits, segments>>

\* fetch_properties_by_municipality after a municipality: its ids have been
\* appended to the list; the loop over the municipalities ends when this
\* was the last one, or when a limit L was given and the list has reached
\* it, and the list is returned as it is.  Otherwise the next municipality
\* is fetched, which can only add ids.
DiscLimit ==
  /\ mode = "discovery" /\ pc = "discovered"
  /\ \E L \in 0..MaxHits : \E last \in BOOLEAN :
       /\ max_properties' = L
       /\ pc' = IF last \/ (L # 0 /\ Len(all_property_ids) >= L)
                 THEN "returned" ELSE "next_municipality"
  /\ UNCHANGED <<inputVars, error_details, db, runVars, ghostVars, seqVars, requests, probe, mapped,
                 bootVars, catalog, total_hits, segments, seg_idx, page, consecutive_empty_pages,
                 property_ids, all_property_ids, seg_requests, faults>>

(* ------------------------- process start-up ---------------------------- *)
\* the modules each import script loads at its top level before anything
\* else runs, in source order
RECURSIVE ModulesLoaded(_)
ModulesLoaded(script) ==
  CASE script = "import_copenhagen_area" ->
         <<"src.database">> \o ModulesLoaded("import_api_data") \o <<script>>
    [] script = "import_api_data" -> <<script>>
    [] script = "reimport_cases_test" -> ModulesLoaded("import_api_data") \o <<script>>
    [] script = "reimport_all_cases" -> ModulesLoaded("reimport_cases_test") \o <<script>>

\* variant: only src.database (the Database singleton) checks the credential
ChecksPassword_DatabaseOnly(module) == module = "src.database"

\* modules whose top level raises ValueError when DB_PASSWORD is falsy
ChecksPassword(module) == module \in {"src.database", "import_api_data"}

InitStartup ==
  /\ mode = "startup"
  /\ source = [p \in PIDs |-> NoDoc]
  /\ db0 = EmptyDb
  /\ InitRun
  /\ property_list = <<>>
  /\ batch_size = 1
  /\ dry_run = FALSE
  /\ pc = "boot"
  /\ probe = NoProbe /\ mapped = "none"
  /\ NoDiscovery
  /\ entry_point \in {"import_copenhagen_area", "import_api_data", "reimport_cases_test",
                     "reimport_all_cases"}
  \* DB_PASSWORD after load_dotenv: not set, set to the empty string, or set
  /\ db_password \in {"unset", "empty", "set"}
  /\ loading = ModulesLoaded(entry_point)

\* the top level of the next module runs: the credential check, if it has
\* one, raises and the process ends
LoadModule ==
  /\ mode = "startup" /\ pc = "boot" /\ loading # <<>>
  /\ IF ChecksPassword(Head(loading)) /\ db_password # "set"
       THEN pc' = "aborted" /\ raised' = TRUE
       ELSE pc' = "boot" /\ raised' = raised
  /\ loading' = Tail(loading)
  /\ UNCHANGED <<inputVars, error_details, db, runVars, interrupted, failed_commits, staged_at_interrupt, used,
                 seqVars, requests, probe, mapped, discVars, entry_point, db_password>>

\* every module is loaded: the entry point runs and sends its first request
\* (a search request, or the detail request of the id given)
FirstRequest ==
  /\ mode = "startup" /\ pc = "boot" /\ loading = <<>>
  /\ \E p \in PIDs : requests' = requests \cup {p}
  /\ pc' = "requesting"
  /\ UNCHANGED <<inputVars, error_details, db, runVars, ghostVars, seqVars, probe, mapped, discVars, bootVars>>

(* --------------------------- specification ----------------------------- *)
Init == InitParallel \/ InitSequential \/ InitApi \/ InitReimport \/ InitMapper \/ InitDiscovery \/ InitStartup
Next ==
  \/ NextParallel \/ NextSequential \/ ApiImport \/ NextReimport
  \/ MapField \/ MapImages \/ MapBuildings
  \/ DiscCount \/ DiscZips \/ DiscPage \/ DiscLimit
  \/ LoadModule \/ FirstRequest
Spec == Init /\ [][Next]_vars

(* ------------------------------ properties ----------------------------- *)
Finished(f) == f.st \in {"done", "yielded"}
NonDryBulk == mode \in {"parallel", "sequential"} /\ ~dry_run

\* the cases of p are the complete set the store held when the run started
HasOldCases(p) ==
  /\ CasesOf(db, p) = CasesOf(db0, p)
  /\ \A c \in CasesOf(db0, p) : ChildrenOfCase(db, c) = ChildrenOfCase(db0, c)

\* the cases of p are the complete set mapped from the served document
HasNewCases(p) ==
  /\ {c.key : c \in CasesOf(db, p)} = {source[p].cases[i].caseID : i \in 1..Len(source[p].cases)}
  /\ Cardinality(CasesOf(db, p)) = Len(source[p].cases)
  /\ \A c \in CasesOf(db, p) : c.ver = source[p].ver

\* C1: reimport_cases_only replaces the cases of a property atomically: in
\* every committed state the property has its complete old case set or its
\* complete new one, and a call that fails after the fetch (returns False)
\* leaves the old case rows in place.
C1_AtomicCaseReplace ==
  mode = "reimport" =>
    \A i \in 1..Len(futures) :
      /\ HasOldCases(futures[i].id) \/ HasNewCases(futures[i].id)
      /\ (Finished(futures[i]) /\ futures[i].res.ok /\ ~futures[i].ret)
           => HasOldCases(futures[i].id)

\* C2: after a successful reimport_cases_only of a property with N cases and
\* a document with N' cases, the property has exactly N' case rows and no
\* PriceChange or CaseImage row of an old case is left in the store.
C2_WholesaleReplacement ==
  mode = "reimport" =>
    \A i \in 1..Len(futures) :
      (Finished(futures[i]) /\ futures[i].ret) =>
        /\ Cardinality(CasesOf(db, futures[i].id)) = Len(source[futures[i].id].cases)
        /\ CasesOf(db0, futures[i].id) \cap db.rows = {}
        /\ \A c \in CasesOf(db0, futures[i].id) : ChildrenOfCase(db, c) = {}

C2_Witness ==
  /\ mode = "reimport"
  /\ \E i \in 1..Len(futures) :
       /\ Finished(futures[i]) /\ futures[i].ret
       /\ \E c \in CasesOf(db0, futures[i].id) : ChildrenOfCase(db0, c) # {}
       /\ Cardinality(CasesOf(db0, futures[i].id)) # Len(source[futures[i].id].cases)
       /\ Len(source[futures[i].id].cases) > 0

\* tables with at most one row per property id
KeyedTables == {T_Property} \cup UniquePropertyIdTables

\* a second import of the stored property p has run to its end
SecondImportDone(p) ==
  /\ p \in PropertyIds(db0)
  /\ \/ mode = "api" /\ ret.id = p /\ ret.fetched
     \/ NonDryBulk /\ pc = "done" /\ ~interrupted /\ p \in Range(property_list)

StagedOk(f) == f.st = "yielded" /\ Usable(f.res) /\ ~import_cases_raises(f.res.doc)

\* C4: when mapping or writing one item raises, only that item is lost:
\* every other item staged in the open batch is persisted by the next
\* successful commit.
C4_OnlyFailedItemLost ==
  (mode = "parallel" /\ pc = "done" /\ ~dry_run /\ ~interrupted /\ failed_commits = 0) =>
    \A i \in 1..Len(futures) : StagedOk(futures[i]) => futures[i].id \in PropertyIds(db)

\* C5: an id that occurs more than once in the candidate list and is not
\* yet stored is fetched at most once, ends with exactly one Property row,
\* and causes no commit failure.
C5_DuplicateCandidate ==
  mode = "parallel" =>
    /\ \A p \in PIDs : Cardinality({i \in 1..Len(futures) : futures[i].id = p}) <= 1
    /\ failed_commits = 0
    /\ (pc = "done" /\ ~interrupted) =>
         \A i \in 1..Len(futures) : StagedOk(futures[i]) => futures[i].id \in PropertyIds(db)

\* C6: whenever a user interrupt arrives, every item that was completed and
\* staged but not yet committed is committed before the process exits.
C6_InterruptFlushes ==
  (mode = "parallel" /\ interrupted /\ pc \in {"done", "aborted"}) =>
    staged_at_interrupt \subseteq PropertyIds(db)

\* C7 as stated: in every parallel operation worker threads only fetch;
\* every mapping step and store write runs on the coordinating thread, and
\* no session is used by more than one thread.
C7_WritesOnCoordinator ==
  /\ \A u \in used : u[2] \in {"map", "write", "query"} => u[1] = MainThread
  /\ \A u, v \in used : (u[3] = v[3] /\ u[3] # "none") => u[1] = v[1]

\* C7 as amended: in import_properties_parallel worker threads only fetch
\* and the coordinating thread maps and writes; in reimport_all_cases each
\* worker fetches, maps and writes through a session of its own call; in
\* both no session is used by more than one thread.
C7_OneThreadPerSession ==
  /\ mode = "parallel" => \A u \in used : u[1] # MainThread => u[2] = "fetch"
  /\ \A u, v \in used : (u[3] = v[3] /\ u[3] # "none") => u[1] = v[1]

C7_Witness ==
  /\ mode = "reimport"
  /\ \E u, v \in used : u[1] = "w1" /\ v[1] = "w2" /\ u[2] = "write" /\ v[2] = "write"

\* C8: the existence check of a bulk import marks as existing exactly the
\* candidates that are Property rows, a detail request is sent only for the
\* others, and the chunked query gives the same set as one membership query.
C8_ExistenceCheck ==
  (NonDryBulk /\ pc # "start") =>
    /\ existing_ids = Range(property_list) \cap PropertyIds(db0)
    /\ requests \cap PropertyIds(db0) = {}
    /\ mode = "parallel" =>
         properties_to_import = SelectSeq(property_list, LAMBDA p : p \notin PropertyIds(db0))
    /\ (pc = "done" /\ ~interrupted) => requests = Range(property_list) \ PropertyIds(db0)

C8_Witness ==
  /\ NonDryBulk /\ pc = "done" /\ ~interrupted
  /\ Len(property_list) > chunk_size
  /\ property_list[Len(property_list)] \in existing_ids
  /\ requests # {}

\* C9: when a batch commit fails, exactly the items staged since the last
\* commit are rolled back: the store is what the earlier commits left, the
\* session is empty, and the loop goes on with the remaining ids.
C9_FailedBatchRolledBack ==
  [][failed_commits' = failed_commits + 1 =>
       /\ db' = db
       /\ pending' = <<>>
       /\ (~interrupted /\ \E i \in 1..Len(futures) : futures'[i].st # "yielded") =>
            /\ pc' = "loop"
            /\ \A i \in 1..Len(futures) :
                 futures'[i].st # "yielded" => futures'[i] = futures[i]]_vars

C9_Witness ==
  /\ mode = "parallel" /\ pc = "loop"
  /\ failed_commits > 0
  /\ PropertyIds(db) # PropertyIds(db0)
  /\ \E i \in 1..Len(futures) : futures[i].st # "yielded"

\* C10: the imported count that import_properties_parallel returns equals
\* the number of properties the run committed.
C10_ImportedCountIsCommitted ==
  (mode = "parallel" /\ pc = "done" /\ ~dry_run) =>
    imported_count = Cardinality(PropertyIds(db) \ PropertyIds(db0))

\* C11: after a user interrupt has been caught in import_properties_parallel
\* no new work is started: a detail fetch that is still queued when the
\* handler has run is never issued.
C11_NoNewWorkAfterInterrupt ==
  [][(mode = "parallel" /\ pc = "shutdown" /\ ~raised) =>
       \A i \in 1..Len(futures) : futures[i].st = "queued" => futures'[i].st = "queued"]_vars

\* exit code of the process: main() returns (0) unless an exception leaves it
exit_code == IF pc = "aborted" THEN 1 ELSE 0

\* C12: a bulk import ended by a user interrupt reports a non-zero
\* completion state.
C12_InterruptReported ==
  (mode \in {"parallel", "sequential"} /\ interrupted /\ pc \in {"done", "aborted"}) =>
    exit_code # 0

\* C13: every Field Mapper function returns without raising for a document
\* in which one optional field is absent or null, and maps it to None (an
\* absent array to no rows).
C13_OptionalFieldsTolerated ==
  (mode = "mapper" /\ pc = "mapped" /\ probe.kind = "field" /\ probe.fs \in {"absent", "null"}) =>
    mapped \in Falsy

\* C14: a malformed date maps to None and the mapping of the rest of the
\* document succeeds, for every date field the mapper reads.
C14_MalformedDateIsNone ==
  (mode = "mapper" /\ pc = "mapped" /\ probe.kind = "field" /\ probe.fs = "malformed") =>
    mapped = "null"

Subdivides == pc = "zips" \/ (segments # <<>> /\ segments[1] # "all")
Direct == segments = <<"all">>

C18_PagingBounded ==
  [][(mode = "discovery" /\ pc = "paging") =>
       /\ page <= page_limit + 2
       /\ seg_requests = page - 1
       /\ consecutive_empty_pages < max_empty_pages
       /\ \/ /\ page' = page + 1 /\ pc' = "paging" /\ seg_idx' = seg_idx
             /\ consecutive_empty_pages' < max_empty_pages
             /\ consecutive_empty_pages' = 0 => page < page_limit
             /\ all_property_ids' = all_property_ids
             /\ SubSeq(property_ids', 1, Len(property_ids)) = property_ids
          \/ /\ page' = 1 /\ property_ids' = <<>>
             /\ Len(all_property_ids') >= Len(all_property_ids) + Len(property_ids)
             /\ SubSeq(all_property_ids', 1, Len(all_property_ids) + Len(property_ids))
                  = all_property_ids \o property_ids]_vars

C18_Witness ==
  /\ mode = "discovery" /\ pc = "paging"
  /\ page = page_limit + 2
  /\ property_ids # <<>>

\* C19: when DB_PASSWORD is missing every import entry point fails at
\* start-up: no search request and no detail request is ever sent.
C19_FailsFastWithoutPassword ==
  (mode = "startup" /\ db_password # "set") =>
    /\ requests = {}
    /\ pc \in {"boot", "aborted"}
    /\ loading = <<>> => pc = "aborted"

C19_Witness ==
  /\ mode = "startup" /\ db_password = "empty"
  /\ entry_point = "reimport_all_cases"
  /\ pc = "aborted" /\ requests = {}

\* import_properties as a function of its inputs: the store and the counts
\* it returns for the candidates list[i..], given the ids found by the
\* existence check (ex) and the answer of the source for every id (resp)
RECURSIVE SeqOutcome(_, _, _, _, _)
SeqOutcome(list, i, d, ex, resp) ==
  IF i > Len(list) THEN [db |-> d, imported |-> 0, skipped |-> 0, errors |-> 0]
  ELSE LET p == list[i]
           out == import_from_api(d, p, resp[p])
           rest == SeqOutcome(list, i + 1, IF p \in ex THEN d ELSE out.db, ex, resp)
       IN IF p \in ex THEN [rest EXCEPT !.skipped = @ + 1]
          ELSE IF out.ok THEN [rest EXCEPT !.imported = @ + 1]
          ELSE [rest EXCEPT !.errors = @ + 1]

\* C20: for every candidate list and every assignment of source answers to
\* ids, import_properties_parallel leaves the store with the same rows as
\* import_properties and returns the same imported / skipped / error counts.
C20_ParallelMatchesSequential ==
  (/\ mode = "parallel" /\ pc = "done" /\ ~dry_run /\ ~interrupted
   /\ \A i, j \in 1..Len(futures) : futures[i].id = futures[j].id => futures[i].res = futures[j].res)
    => LET \* the answer the parallel run got for every id it fetched
           resp == [p \in PIDs |->
                      IF \E i \in 1..Len(futures) : futures[i].id = p
                        THEN futures[CHOOSE i \in 1..Len(futures) : futures[i].id = p].res
                        ELSE Response(FALSE, NoDoc)]
           out == SeqOutcome(property_list, 1, db0, ChunkedExisting(property_list, db0, 0), resp)
           \* a row without its surrogate key
           RowValues(d) == {[tbl |-> r.tbl, property_id |-> r.property_id, key |-> r.key,
                             ver |-> r.ver] : r \in d.rows}
       IN /\ RowValues(db) = RowValues(out.db)
          /\ Cardinality(db.rows) = Cardinality(out.db.rows)
          /\ <<imported_count, skipped_count, error_count>>
               = <<out.imported, out.skipped, out.errors>>

(* ------------- import_properties_parallel left to run ----------------- *)
\* the steps of a parallel run in which no KeyboardInterrupt is delivered
NextUninterrupted ==
  \/ ParDryRun \/ ParAllExist \/ ParSubmit
  \/ WorkerStart \/ WorkerFinish
  \/ ParFetchFailed \/ ParMapRaised \/ ParStaged \/ ParBatchCommit \/ ParBatchCommitFailed
  \/ ParFinish \/ ParFinalCommitFailed

\* the pool's threads and the coordinating thread keep running: a queued
\* task is started when a thread is free, a running fetch returns (the
\* request has a timeout), and the coordinator runs its next step: the
\* start of the function, the loop body for a completed future, the code
\* after the loop
FairSpec ==
  /\ InitParallel /\ [][NextUninterrupted]_vars
  /\ WF_vars(WorkerStart) /\ WF_vars(WorkerFinish)
  /\ WF_pc(pc = "start" /\ pc' \in {"loop", "done"})
  /\ WF_futures(pc = "loop" /\ \E i \in 1..Len(futures) :
                                  futures[i].st = "done" /\ futures' = Yield(i))
  /\ WF_pc(LoopOver /\ pc' = "done")

\* C21: without a user interrupt and with fairly scheduled workers every
\* submitted id is handed to the loop body exactly once and counted as
\* imported or as an error (the two counts together always equal the number
\* of futures processed), a failed fetch never aborts the run, and the run
\* terminates with imported + errors = number of submitted ids.
C21_EveryItemClassifiedOnce ==
  /\ [](~dry_run =>
          /\ imported_count + error_count
               = Cardinality({i \in 1..Len(futures) : futures[i].st = "yielded"})
          /\ pc # "aborted" /\ ~raised)
  /\ <>(pc = "done")
  /\ []((pc = "done" /\ ~dry_run) =>
          /\ \A i \in 1..Len(futures) : futures[i].st = "yielded"
          /\ Len(futures) = Len(properties_to_import)
          /\ imported_count + error_count = Len(properties_to_import))

C21_Witness ==
  /\ mode = "parallel" /\ pc = "done" /\ ~dry_run /\ ~interrupted
  /\ Len(properties_to_import) = MaxCandidates
  /\ \E i \in 1..Len(futures) : ~futures[i].res.ok
  /\ error_count >= 1 /\ imported_count >= 1
  /\ imported_count + error_count = MaxCandidates

\* C22: in a bulk import with batch size B property data becomes durable
\* once per batch, in sequential as in parallel mode: the store changes only
\* when B items have been handled since the previous commit, or in the final
\* commit of a non-empty remainder, and never more than B staged items are
\* uncommitted.
C22_DurablePerBatch ==
  /\ [][(NonDryBulk /\ ~interrupted' /\ db' # db) =>
          \/ /\ mode = "parallel"
             /\ \/ batch_count + 1 = batch_size
                \/ LoopOver /\ batch_count > 0
          \/ /\ mode = "sequential"
             /\ \/ imported_count' - batch_start_idx = batch_size
                \/ idx' = Len(property_list) /\ imported_count' - batch_start_idx > 0]_vars
  /\ [](NonDryBulk => Cardinality(StagedIds(pending)) <= batch_size)

\* C23: in a bulk import, in sequential as in parallel mode, error detail
\* is printed for at most the first max_error_details failures of the run,
\* while every failure is counted.
C23_ErrorDetailCapped ==
  /\ [](mode \in {"parallel", "sequential"} => error_details <= max_error_details)
  /\ [][(mode \in {"parallel", "sequential"}) =>
          /\ error_count' \in {error_count, error_count + 1}
          /\ error_details' # error_details => error_count' = error_count + 1]_vars

\* C24: in import_properties_parallel the session's autoflush is off while
\* items are staged (the loop over the completed fetches) and on again once
\* the function has been left, whether it returned or was interrupted.
C24_AutoflushRestored ==
  mode = "parallel" =>
    /\ pc = "loop" => ~autoflush
    /\ pc \in {"done", "aborted"} => autoflush

\* C25: for a buildings array of length n import_main_building returns a
\* record built from element 0 exactly when n >= 1, whatever its
\* buildingName; import_additional_buildings returns n-1 records built from
\* elements 1..n-1 in array order; an empty, null or absent array yields no
\* building record.
C25_BuildingsByPosition ==
  (mode = "mapper" /\ pc = "mapped" /\ probe.kind = "buildings") =>
    LET n == IF probe.fs = "value" THEN Len(probe.buildings) ELSE 0
    IN /\ Len(mapped.main) = IF n >= 1 THEN 1 ELSE 0
       /\ n >= 1 => mapped.main[1].building_name = probe.buildings[1]
       /\ Len(mapped.additional) = IF n >= 1 THEN n - 1 ELSE 0
       /\ \A i \in 1..Len(mapped.additional) :
            mapped.additional[i].building_name = probe.buildings[i + 1]

C25_Witness ==
  /\ mode = "mapper" /\ pc = "mapped" /\ probe.kind = "buildings"
  /\ probe.buildings = <<"Garage", "null", "Stuehus">>
  /\ Len(mapped.main) = 1 /\ mapped.main[1].building_name = "Garage"
  /\ Len(mapped.additional) = 2

\* C26: a property whose case refresh fails is retried by the next bulk
\* refresh: if P had cases and reimport_cases_only(P) returned False, P is
\* still in the list get_properties_with_cases returns.
C26_FailedRefreshRetried ==
  mode = "reimport" =>
    \A i \in 1..Len(futures) :
      (Finished(futures[i]) /\ ~futures[i].ret /\ CasesOf(db0, futures[i].id) # {})
        => futures[i].id \in Range(get_properties_with_cases(db))

\* import_properties_parallel when the fetches complete in the order they
\* were submitted and nobody interrupts: the loop body for futures[i..],
\* then the final commit.  st holds the store, the session and the counts.
RECURSIVE InOrderOutcome(_, _)
InOrderOutcome(i, st) ==
  IF i > Len(futures)
    THEN IF st.batch_count > 0 THEN [st EXCEPT !.db = Committed(st.db, st.pending)] ELSE st
  ELSE LET r == futures[i].res
           ws == st.pending \o ParallelWrites(st.db, futures[i].id, r.doc)
       IN IF ~Usable(r) THEN InOrderOutcome(i + 1, [st EXCEPT !.errors = @ + 1])
          ELSE IF import_cases_raises(r.doc)
            THEN InOrderOutcome(i + 1, [st EXCEPT !.errors = @ + 1, !.pending = <<>>])
          ELSE IF st.batch_count + 1 >= batch_size
            THEN InOrderOutcome(i + 1, [st EXCEPT !.imported = @ + 1, !.batch_count = 0,
                                                  !.pending = <<>>,
                                                  !.db = Committed(st.db, ws)])
          ELSE InOrderOutcome(i + 1, [st EXCEPT !.imported = @ + 1, !.batch_count = @ + 1,
                                                !.pending = ws])

\* C27: the outcome of import_properties_parallel does not depend on the
\* order in which the fetches complete: whatever the order was, the
\* committed properties and the returned counts are those of the run in
\* which the fetches complete in submission order with the same responses.
C27_CompletionOrderIrrelevant ==
  (mode = "parallel" /\ pc = "done" /\ ~dry_run /\ ~interrupted /\ futures # <<>>) =>
    LET out == InOrderOutcome(1, [db |-> db0, pending |-> <<>>, batch_count |-> 0,
                                  imported |-> 0, errors |-> 0])
    IN /\ PropertyIds(db) = PropertyIds(out.db)
       /\ <<imported_count, error_count>> = <<out.imported, out.errors>>

\* C28: at normal completion of a bulk import, in sequential as in parallel
\* mode, imported + skipped + errors equals the length of the candidate
\* list.
C28_CountsCoverCandidates ==
  (mode \in {"parallel", "sequential"} /\ pc = "done" /\ ~interrupted) =>
    imported_count + skipped_count + error_count = Len(property_list)

\* C29: fetch_properties_by_municipality called with max_properties = L
\* returns at most L candidates.
C29_LimitRespected ==
  (mode = "discovery" /\ pc = "returned" /\ max_properties # 0) =>
    Len(all_property_ids) <= max_properties

\* C30: import_from_api is all-or-nothing per property: a call that returns
\* False (fetch error, mapping exception, constraint violation at commit)
\* leaves every table as it was; a call that returns True has added the
\* Property row and every child row the document maps to, and nothing else.
C30_ImportAllOrNothing ==
  [][(mode = "api" /\ api_calls' = api_calls + 1) =>
       LET p == ret'.id
           doc == source[p]
           case_rows == [i \in 1..Len(doc.cases) |->
                           1 + doc.cases[i].priceChanges
                             + SeqSum([j \in 1..Len(doc.cases[i].images) |->
                                         Cardinality(doc.cases[i].images[j] \cap TargetSizes)])]
           expected == 1 + doc.buildings + Len(doc.registrations) + Cardinality(doc.dims)
                         + SeqSum(case_rows)
       IN /\ ~ret'.ok => db'.rows = db.rows
          /\ ret'.ok =>
               /\ ret'.fetched
               /\ db.rows \subseteq db'.rows
               /\ \A r \in db'.rows \ db.rows : r.property_id = p
               /\ Cardinality(db'.rows \ db.rows) = expected
               /\ Cardinality(RowsOf(db', T_Property, p)) = 1
               /\ RowsOf(db, T_Property, p) = {}]_vars

C30_Witness ==
  /\ mode = "api" /\ api_calls = 2
  /\ ret.fetched /\ ~ret.ok
  /\ db # db0
  /\ \E p \in PIDs : RowsOf(db, T_Case, p) # {} /\ RowsOf(db0, T_Property, p) = {}

====
